---------------------------- MODULE Spec2Model ----------------------------
(***************************************************************************)
(* A model of simple.py: the Flask application that turns a Webex message  *)
(* webhook into a Webex meeting and a Google Calendar event, and the       *)
(* Google OAuth endpoints that write the credential file                   *)
(* meetndecks_tokens.json.                                                 *)
(*                                                                         *)
(* Python values are tagged records (field t is the Python type).  A       *)
(* Python str is a sequence of symbols; a symbol is a record with a kind k *)
(* ("p" punctuation, "q" a quoted JSON string literal, "w" a bare word)    *)
(* and its content c.  Whitespace is not represented.                      *)
(***************************************************************************)
EXTENDS Integers, Sequences, FiniteSets, TLC

(***************************************************************************)
(* Python values                                                           *)
(***************************************************************************)
None == [t |-> "None"]
PyBool(b) == [t |-> "bool", b |-> b]
PyInt(n) == [t |-> "int", n |-> n]
PyStr(syms) == [t |-> "str", s |-> syms]
PyList(vals) == [t |-> "list", items |-> vals]
PyDict(kvs) == [t |-> "dict", pairs |-> kvs]

P(c) == [k |-> "p", c |-> c]
Q(c) == [k |-> "q", c |-> c]
W(c) == [k |-> "w", c |-> c]

\* The str whose content is the word c ("" is the empty str).
Text(c) == IF c = "" THEN PyStr(<<>>) ELSE PyStr(<<W(c)>>)

\* bool(v): the truth value Python gives v in `if v:`.
Truthy(v) ==
    CASE v.t = "None" -> FALSE
      [] v.t = "bool" -> v.b
      [] v.t = "int" -> v.n # 0
      [] v.t = "str" -> Len(v.s) > 0
      [] v.t = "list" -> Len(v.items) > 0
      [] v.t = "dict" -> Len(v.pairs) > 0

RECURSIVE LastIndexOf(_, _, _)
LastIndexOf(kvs, key, i) ==
    IF i = 0 THEN 0
    ELSE IF kvs[i][1] = key THEN i
    ELSE LastIndexOf(kvs, key, i - 1)

\* d.get(key, default) on a dict d (a repeated key keeps its last value).
dict_get(d, key, default) ==
    LET i == LastIndexOf(d.pairs, key, Len(d.pairs))
    IN  IF i = 0 THEN default ELSE d.pairs[i][2]

dict_has(d, key) == LastIndexOf(d.pairs, key, Len(d.pairs)) # 0

(***************************************************************************)
(* json.loads on a str: a recursive-descent parse of the symbol sequence.  *)
(* A result is [ok, val, next]; ok = FALSE is json.JSONDecodeError.        *)
(***************************************************************************)
JsonLiteral(c) ==
    CASE c = "null" -> None
      [] c = "true" -> PyBool(TRUE)
      [] c = "false" -> PyBool(FALSE)
      [] c = "0" -> PyInt(0)
      [] c = "5" -> PyInt(5)

JsonLiterals == {"null", "true", "false", "0", "5"}

DecodeError == [ok |-> FALSE, val |-> None, next |-> 0]
Decoded(v, n) == [ok |-> TRUE, val |-> v, next |-> n]

IsP(toks, i, c) == i <= Len(toks) /\ toks[i] = P(c)

RECURSIVE ParseValue(_, _), ParseElements(_, _, _), ParseMembers(_, _, _)

ParseValue(toks, i) ==
    IF i > Len(toks) THEN DecodeError
    ELSE LET x == toks[i] IN
        CASE x.k = "q" -> Decoded(Text(x.c), i + 1)
          [] x.k = "w" ->
                IF x.c \in JsonLiterals
                THEN Decoded(JsonLiteral(x.c), i + 1) ELSE DecodeError
          [] x = P("[") ->
                IF IsP(toks, i + 1, "]") THEN Decoded(PyList(<<>>), i + 2)
                ELSE ParseElements(toks, i + 1, <<>>)
          [] x = P("{") ->
                IF IsP(toks, i + 1, "}") THEN Decoded(PyDict(<<>>), i + 2)
                ELSE ParseMembers(toks, i + 1, <<>>)
          [] OTHER -> DecodeError

\* i is the position of an element; acc the elements before it.
ParseElements(toks, i, acc) ==
    LET r == ParseValue(toks, i) IN
    IF ~r.ok THEN DecodeError
    ELSE IF IsP(toks, r.next, ",")
         THEN ParseElements(toks, r.next + 1, Append(acc, r.val))
    ELSE IF IsP(toks, r.next, "]")
         THEN Decoded(PyList(Append(acc, r.val)), r.next + 1)
    ELSE DecodeError

\* i is the position of a member's key; acc the pairs before it.
ParseMembers(toks, i, acc) ==
    IF ~(i <= Len(toks) /\ toks[i].k = "q" /\ IsP(toks, i + 1, ":"))
    THEN DecodeError
    ELSE LET r == ParseValue(toks, i + 2) IN
    IF ~r.ok THEN DecodeError
    ELSE IF IsP(toks, r.next, ",")
         THEN ParseMembers(toks, r.next + 1, Append(acc, <<toks[i].c, r.val>>))
    ELSE IF IsP(toks, r.next, "}")
         THEN Decoded(PyDict(Append(acc, <<toks[i].c, r.val>>)), r.next + 1)
    ELSE DecodeError

\* json.loads(s) for a str s: the whole text must be one JSON value.
json_loads(s) ==
    LET r == ParseValue(s.s, 1) IN
    IF r.ok /\ r.next = Len(s.s) + 1 THEN r ELSE DecodeError


(***************************************************************************)
(* Bounds and inputs                                                       *)
(***************************************************************************)
\* Webhook deliveries and /google_callback requests in one behaviour.
MaxWebhooks == 2
MaxCallbacks == 1

Obj2(k1, v1, k2, v2) == <<<<k1, v1>>, <<k2, v2>>>>

\* The "data" member of a webhook body: absent, null, or an object.
DataParts ==
    { <<>>,
      <<<<"data", None>>>>,
      <<<<"data", PyDict(<<>>)>>>>,
      <<<<"data", PyDict(<<<<"id", Text("")>>>>)>>>>,
      <<<<"data", PyDict(<<<<"roomId", Text("r1")>>>>)>>>>,
      <<<<"data", PyDict(Obj2("id", Text("m1"), "roomId", Text("r1")))>>>> }

\* request.json of a POST to /webhook: every "data" shape for a created
\* message, and events of another resource or type, or with no resource.
WebhookBodies ==
    { PyDict(Obj2("resource", Text("messages"), "event", Text("created")) \o d) : d \in DataParts }
    \cup { PyDict(Obj2("resource", Text(r), "event", Text(e)) \o d) :
              r \in {"messages", "rooms"}, e \in {"created", "deleted"},
              d \in { <<<<"data", None>>>>,
                      <<<<"data", PyDict(Obj2("id", Text("m1"), "roomId", Text("r1")))>>>> } }
    \cup { PyDict(<<<<"event", Text("created")>>,
                    <<"data", PyDict(Obj2("id", Text("m1"), "roomId", Text("r1")))>>>>) }

\* What requests.get(url) does: raise, or a response with a status and a body.
Raised == [raise |-> TRUE, status_code |-> 0, json |-> None]
Response(code, body) == [raise |-> FALSE, status_code |-> code, json |-> body]

MessageGetOutcomes ==
    { Raised,
      Response(200, PyDict(<<<<"text", Text("Schedule a meeting with bob@x.com tomorrow at 5pm")>>>>)),
      Response(200, PyDict(<<<<"text", Text("")>>>>)),
      Response(200, PyDict(<<<<"id", Text("m1")>>>>)),
      Response(404, PyDict(<<<<"message", Text("Not Found")>>>>)),
      Response(500, PyDict(<<>>)) }

\* Texts the chat completion may answer with.
IntentOne ==
    PyStr(<<P("{"), Q("attendees"), P(":"), P("["), Q("bob@x.com"), P("]"), P(","),
            Q("date"), P(":"), Q("tomorrow"), P(","),
            Q("time"), P(":"), Q("5pm"), P("}")>>)
IntentTwo ==
    PyStr(<<P("{"), Q("attendees"), P(":"), P("["), Q("bob@x.com"), P(","), Q("amy@x.com"), P("]"), P(","),
            Q("date"), P(":"), Q("2025-02-01"), P(","),
            Q("time"), P(":"), Q("17:00"), P("}")>>)
IntentNoAttendees ==
    PyStr(<<P("{"), Q("date"), P(":"), Q("tomorrow"), P("}")>>)
IntentAttendeesStr ==
    PyStr(<<P("{"), Q("attendees"), P(":"), Q("bob@x.com"), P(","),
            Q("date"), P(":"), Q("tomorrow"), P(","),
            Q("time"), P(":"), Q("5pm"), P("}")>>)
IntentAttendeesNull ==
    PyStr(<<P("{"), Q("attendees"), P(":"), W("null"), P(","),
            Q("date"), P(":"), Q("tomorrow"), P(","),
            Q("time"), P(":"), Q("5pm"), P("}")>>)
ChatText == PyStr(<<W("Sure"), P(","), W("I'll schedule that for you!")>>)

CompletionTexts ==
    { IntentOne, IntentTwo, IntentNoAttendees, IntentAttendeesStr, IntentAttendeesNull,
      ChatText, PyStr(<<>>),
      PyStr(<<P("{"), P("}")>>),
      PyStr(<<P("["), Q("bob@x.com"), P("]")>>),
      PyStr(<<W("null")>>) }

\* openai.ChatCompletion.create: raise, or a completion whose content is a text.
CompletionOutcomes ==
    { [raise |-> TRUE, content |-> None] }
    \cup { [raise |-> FALSE, content |-> c] : c \in CompletionTexts }

LinkA == Text("https://meet.webex.com/a")
LinkB == Text("https://meet.webex.com/b")

\* What requests.post to /v1/meetings does.
MeetingPostOutcomes ==
    { Raised,
      Response(200, PyDict(<<<<"webLink", LinkA>>>>)),
      Response(200, PyDict(<<<<"items", PyList(<<PyDict(<<<<"webLink", LinkB>>>>)>>)>>>>)),
      Response(200, PyDict(<<<<"id", Text("mtg1")>>>>)),
      Response(200, PyDict(<<<<"items", PyList(<<>>)>>>>)),
      Response(201, PyDict(<<<<"webLink", LinkA>>>>)),
      Response(401, PyDict(<<<<"message", Text("Unauthorized")>>>>)),
      Response(500, PyDict(<<>>)) }

\* events().insert(...).execute(): the created event, or HttpError.
InsertOutcomes == { "created", "HttpError" }

\* The "code" query parameter of a GET: absent (None), empty, or a code.
CodeParams == { None, Text(""), Text("4/0AbCd") }

\* Token bundles (creds.to_json()): the one a file left by an earlier run
\* holds, and the one the provider issues now.
Bundles == { "bundle1", "bundle2" }

\* flow.fetch_token(code=code): a new bundle, or an exception (a rejected code).
ExchangeOutcomes == { "bundle2", "InvalidGrantError" }

HostEmail == Text("archit.sachdeva007@gmail.com")

(***************************************************************************)
(* The functions of simple.py, as operators on Python values.  A result    *)
(* with exc # "none" is an exception leaving the function.                 *)
(***************************************************************************)
\* webhook, lines 31-39: which way the handler goes after reading the body.
\* "AttributeError" is data.get on a "data" member that is not a dict.
FilterStage(webhook_data) ==
    LET resource == dict_get(webhook_data, "resource", None)
        event == dict_get(webhook_data, "event", None)
        data == dict_get(webhook_data, "data", PyDict(<<>>))
    IN  IF resource = Text("messages") /\ event = Text("created")
        THEN IF data.t # "dict"
             THEN [exc |-> "AttributeError", pass |-> FALSE, message_id |-> None]
             ELSE LET message_id == dict_get(data, "id", None)
                  IN  [exc |-> "none", pass |-> Truthy(message_id), message_id |-> message_id]
        ELSE [exc |-> "none", pass |-> FALSE, message_id |-> None]

\* FetchText with a non-200 status raised to the caller (raise_for_status).
FetchText_RaiseForStatus(out) ==
    IF out.raise THEN [exc |-> "ConnectionError", val |-> None]
    ELSE IF out.status_code = 200
         THEN [exc |-> "none", val |-> dict_get(out.json, "text", Text(""))]
         ELSE [exc |-> "HTTPError", val |-> None]

\* fetch_webex_message_text, lines 121-127, on the outcome of requests.get.
FetchText(out) ==
    IF out.raise THEN [exc |-> "ConnectionError", val |-> None]
    ELSE IF out.status_code = 200
         THEN [exc |-> "none", val |-> dict_get(out.json, "text", Text(""))]
         ELSE [exc |-> "none", val |-> Text("")]

\* process_natural_language_input, lines 172-203, on the outcome of the
\* completion call: the content, or the dict {"error": str(e)}.
ExtractResult(out) ==
    IF out.raise THEN PyDict(<<<<"error", Text("APIError")>>>>)
    ELSE out.content

\* ParseStage with the except branch keeping the raw text as booking_data.
ParseStage_TextOnError(openai_response) ==
    IF openai_response.t # "str"
    THEN [exc |-> "TypeError", booking_data |-> None]
    ELSE LET r == json_loads(openai_response)
         IN  IF r.ok THEN [exc |-> "none", booking_data |-> r.val]
             ELSE [exc |-> "none", booking_data |-> openai_response]

\* webhook, lines 50-56: json.loads raises TypeError on a value that is not a
\* str, and only json.JSONDecodeError is caught.
ParseStage(openai_response) ==
    IF openai_response.t # "str"
    THEN [exc |-> "TypeError", booking_data |-> None]
    ELSE LET r == json_loads(openai_response)
         IN  IF r.ok THEN [exc |-> "none", booking_data |-> r.val]
             ELSE [exc |-> "none", booking_data |-> None]

\* BookingAccepted as `if booking_data is not None:`.
BookingAccepted_NotNone(booking_data) == booking_data.t # "None"

\* webhook, line 58: `if booking_data:`.
BookingAccepted(booking_data) == Truthy(booking_data)

\* An RFC 3339 timestamp, as the code writes them in its literals: date,
\* time of day, and the UTC offset in minutes ("Z" is 0, "-05:00" is -300).
Rfc3339(year, month, day, hour, minute, second, offset) ==
    [ year |-> year, month |-> month, day |-> day,
      hour |-> hour, minute |-> minute, second |-> second, offset |-> offset ]

\* No timestamp yet.
NoTime == Rfc3339(0, 0, 0, 0, 0, 0, 0)

NoPayload ==
    [ title |-> "", start |-> NoTime, end |-> NoTime,
      enabledAutoRecordMeeting |-> FALSE, allowAnyUserToBeCoHost |-> FALSE ]

\* create_webex_meeting, lines 84-90: the request body.
MeetingPayload(booking_data) ==
    [ title |-> "Scheduled via Webex + GPT",
      start |-> Rfc3339(2025, 2, 1, 17, 0, 0, 0),    \* "2025-02-01T17:00:00Z"
      end |-> Rfc3339(2025, 2, 1, 17, 30, 0, 0),     \* "2025-02-01T17:30:00Z"
      enabledAutoRecordMeeting |-> FALSE,
      allowAnyUserToBeCoHost |-> FALSE ]

\* create_webex_meeting, lines 92-100, on the outcome of requests.post.
MeetingLink(out) ==
    IF out.raise THEN [exc |-> "ConnectionError", val |-> None]
    ELSE IF out.status_code = 200
    THEN IF dict_has(out.json, "items")
         THEN LET items == dict_get(out.json, "items", None)
              IN  IF Len(items.items) = 0
                  THEN [exc |-> "IndexError", val |-> None]
                  ELSE [exc |-> "none", val |-> dict_get(items.items[1], "webLink", None)]
         ELSE [exc |-> "none", val |-> dict_get(out.json, "webLink", None)]
    ELSE [exc |-> "none", val |-> None]

\* TokensExist with the check left out.
TokensExist_Always(file) == TRUE

\* create_google_calendar_event, line 136: os.path.exists on the token file.
TokensExist(file) == file.exists

\* create_google_calendar_event, line 140: Credentials.from_authorized_user_file
\* raises on a file that does not hold a whole bundle.
LoadCredentials(file) ==
    IF file.exists /\ file.content \in Bundles
    THEN [exc |-> "none", creds |-> file.content]
    ELSE [exc |-> "ValueError", creds |-> ""]

\* `for email in v`: the items of a list, the characters of a str, the keys
\* of a dict; TypeError on a value that is not iterable.
Iterate(v) ==
    CASE v.t = "list" -> [exc |-> "none", items |-> v.items]
      [] v.t = "str" -> [exc |-> "none", items |-> [i \in 1..Len(v.s) |-> PyStr(<<v.s[i]>>)]]
      [] v.t = "dict" -> [exc |-> "none", items |-> [i \in 1..Len(v.pairs) |-> Text(v.pairs[i][1])]]
      [] OTHER -> [exc |-> "TypeError", items |-> <<>>]

\* create_google_calendar_event, line 157: the event's location.
EventLocation(webex_link) == webex_link

\* EventAttendees built back to front.
EventAttendees_Reversed(emails) ==
    [i \in 1..Len(emails) |-> [email |-> emails[Len(emails) + 1 - i]]]

\* create_google_calendar_event, line 160: the event's attendees.
EventAttendees(emails) == [i \in 1..Len(emails) |-> [email |-> emails[i]]]

\* create_google_calendar_event, lines 150-151.
start_datetime == Rfc3339(2025, 2, 1, 17, 0, 0, -300)    \* "2025-02-01T17:00:00-05:00"
end_datetime == Rfc3339(2025, 2, 1, 17, 30, 0, -300)     \* "2025-02-01T17:30:00-05:00"

NoBody == [summary |-> "", location |-> None, start |-> NoTime, end |-> NoTime,
           timeZone |-> "", attendees |-> <<>>, organizer |-> None]

\* create_google_calendar_event, lines 146-162: booking_data.get needs a dict.
EventBody(host_email, booking_data, webex_link) ==
    IF booking_data.t # "dict" THEN [exc |-> "AttributeError", body |-> NoBody]
    ELSE LET it == Iterate(dict_get(booking_data, "attendees", PyList(<<>>)))
         IN  IF it.exc # "none" THEN [exc |-> it.exc, body |-> NoBody]
             ELSE [exc |-> "none",
                   body |-> [ summary |-> "Meeting from GPT + Webex",
                              location |-> EventLocation(webex_link),
                              start |-> start_datetime,
                              end |-> end_datetime,
                              timeZone |-> "Europe/London",
                              attendees |-> EventAttendees(it.items),
                              organizer |-> host_email ]]

\* MissingCode as `if code is None:`, which lets an empty code through.
MissingCode_NoneOnly(code) == code.t = "None"

\* oauth_callback line 108 and google_callback line 233: `if not code:`.
MissingCode(code) == ~Truthy(code)

\* webhook, lines 63-67: the link handed to create_google_calendar_event.
PublisherLinkArg(url) == url

(***************************************************************************)
(* State                                                                   *)
(***************************************************************************)
VARIABLES
    wpc,                \* where the /webhook request in flight is
    webhook_data,       \* request.json
    message_id,
    message_text,
    openai_response,
    booking_data,
    meeting_request,    \* the body create_webex_meeting posted
    webex_meeting_url,
    webex_link,         \* create_google_calendar_event's parameter
    creds,              \* the bundle the publisher loaded ("" before)
    event_body,         \* the body given to events().insert
    calls,              \* the request's calls, external and internal, in order
    fetch_status,       \* response.status_code in fetch_webex_message_text (0 before)
    wexception,         \* the exception that left the handler, and where
    wresponse,          \* the response of the /webhook request
    nwebhooks,          \* /webhook requests received
    gpc,                \* where the GET request in flight is
    groute,             \* its route
    gcode,              \* its "code" parameter
    gcreds,             \* flow.credentials after the exchange ("" before)
    gresponse,          \* its response
    ncallbacks,         \* /google_callback requests received
    tokens_file,        \* meetndecks_tokens.json: [exists, content]
    meetings_posted,    \* meeting-creation requests sent to Webex
    events_inserted     \* insert requests sent to Google Calendar

wvars == <<wpc, webhook_data, message_id, message_text, openai_response, booking_data,
           meeting_request, webex_meeting_url, webex_link, creds, event_body, calls, fetch_status,
           wexception, wresponse, nwebhooks>>
gvars == <<gpc, groute, gcode, gcreds, gresponse, ncallbacks>>
vars == <<wvars, gvars, tokens_file, meetings_posted, events_inserted>>

NoResponse == [status |-> 0, body |-> ""]
Ack == [status |-> 200, body |-> "{\"status\":\"ok\"}"]
\* What Flask answers when an exception leaves a view function.
ServerError == [status |-> 500, body |-> "Internal Server Error"]

NoException == [type |-> "", at |-> ""]

AbsentFile == [exists |-> FALSE, content |-> ""]

Init ==
    /\ wpc = "idle"
    /\ webhook_data = None
    /\ message_id = None
    /\ message_text = None
    /\ openai_response = None
    /\ booking_data = None
    /\ meeting_request = NoPayload
    /\ webex_meeting_url = None
    /\ webex_link = None
    /\ creds = ""
    /\ event_body = NoBody
    /\ calls = <<>>
    /\ fetch_status = 0
    /\ wexception = NoException
    /\ wresponse = NoResponse
    /\ nwebhooks = 0
    /\ gpc = "idle"
    /\ groute = ""
    /\ gcode = None
    /\ gcreds = ""
    /\ gresponse = NoResponse
    /\ ncallbacks = 0
    /\ tokens_file \in {AbsentFile, [exists |-> TRUE, content |-> "bundle1"]}
    /\ meetings_posted = 0
    /\ events_inserted = 0

(***************************************************************************)
(* POST /webhook                                                           *)
(***************************************************************************)
\* An exception leaves the handler: Flask answers 500.
Crash(at, type) ==
    /\ wpc' = "crashed"
    /\ wexception' = [type |-> type, at |-> at]
    /\ wresponse' = ServerError

\* lines 25-39: a request arrives; the handler reads the body and filters.
WebhookReceive(body) ==
    /\ wpc \in {"idle", "done", "crashed"}
    /\ nwebhooks < MaxWebhooks
    /\ nwebhooks' = nwebhooks + 1
    /\ webhook_data' = body
    /\ message_text' = None
    /\ openai_response' = None
    /\ booking_data' = None
    /\ meeting_request' = NoPayload
    /\ webex_meeting_url' = None
    /\ webex_link' = None
    /\ creds' = ""
    /\ event_body' = NoBody
    /\ calls' = <<>>
    /\ fetch_status' = 0
    /\ LET f == FilterStage(body) IN
        /\ message_id' = f.message_id
        /\ IF f.exc # "none" THEN Crash("webhook", f.exc)
           ELSE /\ wresponse' = NoResponse
                /\ wexception' = NoException
                /\ wpc' = IF f.pass THEN "fetch" ELSE "return"
    /\ UNCHANGED <<gvars, tokens_file, meetings_posted, events_inserted>>

\* line 41 and fetch_webex_message_text, lines 114-127.
FetchMessage(out) ==
    /\ wpc = "fetch"
    /\ calls' = Append(calls, "messages.get")
    /\ fetch_status' = out.status_code
    /\ LET r == FetchText(out) IN
        IF r.exc # "none"
        THEN Crash("fetch_webex_message_text", r.exc) /\ UNCHANGED message_text
        ELSE /\ message_text' = r.val
             /\ wpc' = "extract"
             /\ UNCHANGED <<wresponse, wexception>>
    /\ UNCHANGED meeting_request
    /\ UNCHANGED <<webhook_data, message_id, openai_response, booking_data, webex_meeting_url,
                   webex_link, creds, event_body, nwebhooks>>
    /\ UNCHANGED <<gvars, tokens_file, meetings_posted, events_inserted>>

\* line 45 and process_natural_language_input, lines 167-203.
ExtractIntent(out) ==
    /\ wpc = "extract"
    /\ calls' = Append(calls, "chat.completion")
    /\ openai_response' = ExtractResult(out)
    /\ wpc' = "parse"
    /\ UNCHANGED meeting_request
    /\ UNCHANGED <<webhook_data, message_id, message_text, booking_data, webex_meeting_url,
                   webex_link, creds, event_body, fetch_status, wexception, wresponse,
                   nwebhooks>>
    /\ UNCHANGED <<gvars, tokens_file, meetings_posted, events_inserted>>

\* ParseIntent by a handler that goes from the parse straight to the
\* publisher.
ParseIntent_SkipsProvision ==
    /\ wpc = "parse"
    /\ LET r == ParseStage(openai_response) IN
        IF r.exc # "none" THEN Crash("webhook", r.exc) /\ UNCHANGED booking_data
        ELSE /\ booking_data' = r.booking_data
             /\ wpc' = IF BookingAccepted(r.booking_data) THEN "publish" ELSE "return"
             /\ UNCHANGED <<wresponse, wexception>>
    /\ UNCHANGED meeting_request
    /\ UNCHANGED <<webhook_data, message_id, message_text, openai_response, webex_meeting_url,
                   webex_link, creds, event_body, calls, fetch_status, nwebhooks>>
    /\ UNCHANGED <<gvars, tokens_file, meetings_posted, events_inserted>>

\* lines 50-58: parse the extractor's result and decide whether to go on.
ParseIntent ==
    /\ wpc = "parse"
    /\ LET r == ParseStage(openai_response) IN
        IF r.exc # "none" THEN Crash("webhook", r.exc) /\ UNCHANGED booking_data
        ELSE /\ booking_data' = r.booking_data
             /\ wpc' = IF BookingAccepted(r.booking_data) THEN "provision" ELSE "return"
             /\ UNCHANGED <<wresponse, wexception>>
    /\ UNCHANGED meeting_request
    /\ UNCHANGED <<webhook_data, message_id, message_text, openai_response, webex_meeting_url,
                   webex_link, creds, event_body, calls, fetch_status, nwebhooks>>
    /\ UNCHANGED <<gvars, tokens_file, meetings_posted, events_inserted>>

\* ProvisionMeeting with a seen-set: a delivery after one that already posted
\* a meeting posts none.
ProvisionMeeting_Dedup(out) ==
    /\ wpc = "provision"
    /\ IF meetings_posted > 0
       THEN /\ calls' = Append(calls, "create_webex_meeting")
            /\ UNCHANGED <<meeting_request, meetings_posted, webex_meeting_url>>
            /\ wpc' = "publish"
            /\ UNCHANGED <<wresponse, wexception>>
       ELSE /\ calls' = calls \o <<"create_webex_meeting", "meetings.post">>
            /\ meeting_request' = MeetingPayload(booking_data)
            /\ meetings_posted' = meetings_posted + 1
            /\ LET r == MeetingLink(out) IN
                IF r.exc # "none"
                THEN Crash("create_webex_meeting", r.exc) /\ UNCHANGED webex_meeting_url
                ELSE /\ webex_meeting_url' = r.val
                     /\ wpc' = "publish"
                     /\ UNCHANGED <<wresponse, wexception>>
    /\ UNCHANGED <<webhook_data, message_id, message_text, openai_response, booking_data,
                   webex_link, creds, event_body, fetch_status, nwebhooks>>
    /\ UNCHANGED <<gvars, tokens_file, events_inserted>>

\* line 60 and create_webex_meeting, lines 72-100.
ProvisionMeeting(out) ==
    /\ wpc = "provision"
    /\ calls' = calls \o <<"create_webex_meeting", "meetings.post">>
    /\ meeting_request' = MeetingPayload(booking_data)
    /\ meetings_posted' = meetings_posted + 1
    /\ LET r == MeetingLink(out) IN
        IF r.exc # "none"
        THEN Crash("create_webex_meeting", r.exc) /\ UNCHANGED webex_meeting_url
        ELSE /\ webex_meeting_url' = r.val
             /\ wpc' = "publish"
             /\ UNCHANGED <<wresponse, wexception>>
    /\ UNCHANGED <<webhook_data, message_id, message_text, openai_response, booking_data,
                   webex_link, creds, event_body, fetch_status, nwebhooks>>
    /\ UNCHANGED <<gvars, tokens_file, events_inserted>>

\* PublisherCheck by a publisher that stops when it is handed no link.
PublisherCheck_RequiresLink ==
    /\ wpc = "publish"
    /\ calls' = calls \o <<"create_google_calendar_event", "tokens.exists">>
    /\ webex_link' = PublisherLinkArg(webex_meeting_url)
    /\ wpc' = IF TokensExist(tokens_file) /\ webex_meeting_url # None
              THEN "load" ELSE "return"
    /\ UNCHANGED meeting_request
    /\ UNCHANGED <<webhook_data, message_id, message_text, openai_response, booking_data,
                   webex_meeting_url, creds, event_body, fetch_status, wexception,
                   wresponse, nwebhooks>>
    /\ UNCHANGED <<gvars, tokens_file, meetings_posted, events_inserted>>

\* lines 63-67 and create_google_calendar_event, lines 136-138.
PublisherCheck ==
    /\ wpc = "publish"
    /\ calls' = calls \o <<"create_google_calendar_event", "tokens.exists">>
    /\ webex_link' = PublisherLinkArg(webex_meeting_url)
    /\ wpc' = IF TokensExist(tokens_file) THEN "load" ELSE "return"
    /\ UNCHANGED meeting_request
    /\ UNCHANGED <<webhook_data, message_id, message_text, openai_response, booking_data,
                   webex_meeting_url, creds, event_body, fetch_status, wexception,
                   wresponse, nwebhooks>>
    /\ UNCHANGED <<gvars, tokens_file, meetings_posted, events_inserted>>

\* PublisherLoad under a lock held by /google_callback from open to close.
PublisherLoad_Locked ==
    /\ wpc = "load"
    /\ gpc # "write"
    /\ calls' = Append(calls, "tokens.read")
    /\ LET r == LoadCredentials(tokens_file) IN
        IF r.exc # "none"
        THEN Crash("create_google_calendar_event", r.exc) /\ UNCHANGED creds
        ELSE /\ creds' = r.creds
             /\ wpc' = "insert"
             /\ UNCHANGED <<wresponse, wexception>>
    /\ UNCHANGED meeting_request
    /\ UNCHANGED <<webhook_data, message_id, message_text, openai_response, booking_data,
                   webex_meeting_url, webex_link, event_body, fetch_status, nwebhooks>>
    /\ UNCHANGED <<gvars, tokens_file, meetings_posted, events_inserted>>

\* create_google_calendar_event, lines 140-141.
PublisherLoad ==
    /\ wpc = "load"
    /\ calls' = Append(calls, "tokens.read")
    /\ LET r == LoadCredentials(tokens_file) IN
        IF r.exc # "none"
        THEN Crash("create_google_calendar_event", r.exc) /\ UNCHANGED creds
        ELSE /\ creds' = r.creds
             /\ wpc' = "insert"
             /\ UNCHANGED <<wresponse, wexception>>
    /\ UNCHANGED meeting_request
    /\ UNCHANGED <<webhook_data, message_id, message_text, openai_response, booking_data,
                   webex_meeting_url, webex_link, event_body, fetch_status, nwebhooks>>
    /\ UNCHANGED <<gvars, tokens_file, meetings_posted, events_inserted>>

\* create_google_calendar_event, lines 146-165.
PublisherInsert(out) ==
    /\ wpc = "insert"
    /\ LET b == EventBody(HostEmail, booking_data, webex_link) IN
        IF b.exc # "none"
        THEN /\ Crash("create_google_calendar_event", b.exc)
             /\ UNCHANGED <<event_body, calls, events_inserted>>
        ELSE /\ event_body' = b.body
             /\ calls' = Append(calls, "events.insert")
             /\ events_inserted' = events_inserted + 1
             /\ IF out = "HttpError"
                THEN Crash("create_google_calendar_event", "HttpError")
                ELSE wpc' = "return" /\ UNCHANGED <<wresponse, wexception>>
    /\ UNCHANGED meeting_request
    /\ UNCHANGED <<webhook_data, message_id, message_text, openai_response, booking_data,
                   webex_meeting_url, webex_link, creds, fetch_status, nwebhooks>>
    /\ UNCHANGED <<gvars, tokens_file, meetings_posted>>

\* line 70.
WebhookReturn ==
    /\ wpc = "return"
    /\ wresponse' = Ack
    /\ wpc' = "done"
    /\ UNCHANGED meeting_request
    /\ UNCHANGED <<webhook_data, message_id, message_text, openai_response, booking_data,
                   webex_meeting_url, webex_link, creds, event_body, calls, fetch_status,
                   wexception, nwebhooks>>
    /\ UNCHANGED <<gvars, tokens_file, meetings_posted, events_inserted>>

(***************************************************************************)
(* The GET endpoints.  One GET request is in flight at a time, beside the  *)
(* webhook request; /callback and /google_auth read and write nothing the  *)
(* other handlers use, so each is one step.                                *)
(***************************************************************************)
\* google_callback, lines 225-234: a request arrives; without a code it is
\* answered 400.
GoogleCallbackReceive(code) ==
    /\ gpc \in {"idle", "done", "crashed"}
    /\ ncallbacks < MaxCallbacks
    /\ ncallbacks' = ncallbacks + 1
    /\ groute' = "/google_callback"
    /\ gcode' = code
    /\ gcreds' = ""
    /\ IF MissingCode(code)
       THEN /\ gresponse' = [status |-> 400, body |-> "Missing Google OAuth code."]
            /\ gpc' = "done"
       ELSE /\ gresponse' = NoResponse
            /\ gpc' = "exchange"
    /\ UNCHANGED <<wvars, tokens_file, meetings_posted, events_inserted>>

\* GoogleExchange with the exchange's exception swallowed: the handler goes
\* on to write the file with no bundle.
GoogleExchange_IgnoresFailure(out) ==
    /\ gpc = "exchange"
    /\ gcreds' = IF out \in Bundles THEN out ELSE ""
    /\ gpc' = "open"
    /\ UNCHANGED <<groute, gcode, gresponse, ncallbacks>>
    /\ UNCHANGED <<wvars, tokens_file, meetings_posted, events_inserted>>

\* google_callback, lines 236-244: the code is exchanged for a token bundle.
GoogleExchange(out) ==
    /\ gpc = "exchange"
    /\ IF out \in Bundles
       THEN gcreds' = out /\ gpc' = "open" /\ UNCHANGED gresponse
       ELSE gpc' = "crashed" /\ gresponse' = ServerError /\ UNCHANGED gcreds
    /\ UNCHANGED <<groute, gcode, ncallbacks>>
    /\ UNCHANGED <<wvars, tokens_file, meetings_posted, events_inserted>>

\* google_callback, line 245: open(..., "w") creates the file or truncates it.
GoogleOpen ==
    /\ gpc = "open"
    /\ tokens_file' = [exists |-> TRUE, content |-> ""]
    /\ gpc' = "write"
    /\ UNCHANGED <<groute, gcode, gcreds, gresponse, ncallbacks>>
    /\ UNCHANGED <<wvars, meetings_posted, events_inserted>>

\* google_callback, line 246 and the end of the with block: the bundle
\* reaches the file.
GoogleWrite ==
    /\ gpc = "write"
    /\ tokens_file' = [exists |-> TRUE, content |-> gcreds]
    /\ gpc' = "return"
    /\ UNCHANGED <<groute, gcode, gcreds, gresponse, ncallbacks>>
    /\ UNCHANGED <<wvars, meetings_posted, events_inserted>>

\* google_callback, line 248.
GoogleCallbackReturn ==
    /\ gpc = "return"
    /\ gresponse' = [status |-> 200, body |-> "Google OAuth successful. You can close this window."]
    /\ gpc' = "done"
    /\ UNCHANGED <<groute, gcode, gcreds, ncallbacks>>
    /\ UNCHANGED <<wvars, tokens_file, meetings_posted, events_inserted>>

\* oauth_callback, lines 102-112: the code is only printed.
OAuthCallback(code) ==
    /\ gpc \in {"idle", "done", "crashed"}
    /\ groute' = "/callback"
    /\ gcode' = code
    /\ gcreds' = ""
    /\ gresponse' =
          IF MissingCode(code)
          THEN [status |-> 400, body |-> "Error: No authorization code received."]
          ELSE [status |-> 200, body |-> "OAuth successful! You can close this window."]
    /\ gpc' = "done"
    /\ UNCHANGED <<ncallbacks, wvars, tokens_file, meetings_posted, events_inserted>>

\* google_auth, lines 205-222: the authorization URL is returned; the state
\* value is dropped.
GoogleAuth ==
    /\ gpc \in {"idle", "done", "crashed"}
    /\ groute' = "/google_auth"
    /\ gcode' = None
    /\ gcreds' = ""
    /\ gresponse' = [status |-> 200, body |-> "{\"auth_url\": ...}"]
    /\ gpc' = "done"
    /\ UNCHANGED <<ncallbacks, wvars, tokens_file, meetings_posted, events_inserted>>

Next ==
    \/ \E body \in WebhookBodies : WebhookReceive(body)
    \/ \E out \in MessageGetOutcomes : FetchMessage(out)
    \/ \E out \in CompletionOutcomes : ExtractIntent(out)
    \/ ParseIntent
    \/ \E out \in MeetingPostOutcomes : ProvisionMeeting(out)
    \/ PublisherCheck
    \/ PublisherLoad
    \/ \E out \in InsertOutcomes : PublisherInsert(out)
    \/ WebhookReturn
    \/ \E code \in CodeParams : GoogleCallbackReceive(code)
    \/ \E out \in ExchangeOutcomes : GoogleExchange(out)
    \/ GoogleOpen
    \/ GoogleWrite
    \/ GoogleCallbackReturn
    \/ \E code \in CodeParams : OAuthCallback(code)
    \/ GoogleAuth

Spec == Init /\ [][Next]_vars

(***************************************************************************)
(* Properties                                                              *)
(***************************************************************************)
CountOf(seq, name) == Cardinality({i \in DOMAIN seq : seq[i] = name})
Count(name) == CountOf(calls, name)
Called(name) == Count(name) > 0
Finished == wpc \in {"done", "crashed"}

\* C1: every POST to /webhook completes and is answered 200 {"status":"ok"},
\* whatever its stages yield; no internal failure reaches the caller.
C1_AlwaysAcknowledged == Finished => (wpc = "done" /\ wresponse = Ack)

\* The message id of a body: data.id, None when data or id is missing.
IdOf(body) ==
    LET d == dict_get(body, "data", None)
    IN  IF d.t = "dict" THEN dict_get(d, "id", None) ELSE None

FilteredOut(body) ==
    \/ dict_get(body, "resource", None) # Text("messages")
    \/ dict_get(body, "event", None) # Text("created")
    \/ IdOf(body) = None
    \/ IdOf(body) = Text("")

\* C2: an event with resource # "messages", or event # "created", or data.id
\* missing or empty makes no outbound call and no credential-file access, and
\* is answered with the acknowledgement.
C2_FilteredEventAcknowledged ==
    (webhook_data # None /\ FilteredOut(webhook_data)) =>
        /\ calls = <<>>
        /\ wpc \in {"return", "done"}
        /\ wpc = "done" => wresponse = Ack

NotJson(v) == v.t = "str" /\ ~json_loads(v).ok

\* C3: when the extractor's output is text that is not valid JSON, the parse
\* stage reports failure (booking_data is None), neither create_webex_meeting
\* nor create_google_calendar_event is called, and no call is repeated.
C3_NonJsonStopsPipeline ==
    NotJson(openai_response) =>
        /\ booking_data = None
        /\ wpc \in {"parse", "return", "done"}
        /\ ~Called("create_webex_meeting") /\ ~Called("meetings.post")
        /\ ~Called("create_google_calendar_event") /\ ~Called("events.insert")
        /\ Count("messages.get") = 1 /\ Count("chat.completion") = 1

C3_Witness ==
    /\ wpc = "done"
    /\ openai_response = ChatText
    /\ booking_data = None
    /\ calls = <<"messages.get", "chat.completion">>

IsStr(v) == v.t = "str"

\* A BookingIntent: an object with a list of strs "attendees", and strs
\* "date" and "time".
IsBookingIntent(v) ==
    /\ v.t = "dict"
    /\ dict_has(v, "attendees") /\ dict_has(v, "date") /\ dict_has(v, "time")
    /\ LET a == dict_get(v, "attendees", None)
       IN  a.t = "list" /\ \A i \in DOMAIN a.items : IsStr(a.items[i])
    /\ IsStr(dict_get(v, "date", None))
    /\ IsStr(dict_get(v, "time", None))

Malformed(v) ==
    /\ v.t = "str"
    /\ LET r == json_loads(v) IN ~r.ok \/ ~IsBookingIntent(r.val)

\* C4: a malformed model response (not valid JSON, not a JSON object, or an
\* object lacking attendees, date or time) short-circuits the pipeline: no
\* meeting is created and no calendar event is inserted.
C4_MalformedShortCircuits ==
    Malformed(openai_response) => ~Called("meetings.post") /\ ~Called("events.insert")

\* C5: for an event that passed the filter and whose text was fetched, the
\* extractor is invoked exactly once and its result, text or error value,
\* goes through the parse stage without an exception; an extractor failure
\* ends the pipeline with no meeting and no calendar call.
C5_ExtractorResultHandled ==
    (message_text # None /\ wpc # "extract") =>
        /\ Count("chat.completion") = 1
        /\ ~(wpc = "crashed" /\ wexception.at = "webhook")
        /\ openai_response.t = "dict" =>
              /\ ~Called("create_webex_meeting")
              /\ ~Called("create_google_calendar_event")
              /\ wpc \in {"parse", "return", "done"}

\* The credentials are stored for the publisher: it loaded a bundle, or the
\* file an earlier run left is still as it was (no request rewrote it).
CredentialsStored ==
    creds \in Bundles \/ tokens_file = [exists |-> TRUE, content |-> "bundle1"]

\* The webhook request went down the success path: the model's text parses
\* to a BookingIntent, create_webex_meeting returned, credentials are stored.
SuccessPath ==
    /\ Finished
    /\ openai_response.t = "str"
    /\ json_loads(openai_response).ok
    /\ IsBookingIntent(json_loads(openai_response).val)
    /\ wexception.at # "create_webex_meeting"
    /\ CredentialsStored

\* C6: on the success path create_webex_meeting is called once, then
\* create_google_calendar_event once, with the link create_webex_meeting
\* returned, and the event's attendees are BookingIntent.attendees, one for
\* one and in order.
C6_SuccessPathCalls ==
    SuccessPath =>
        LET intent == json_loads(openai_response).val
            attendees == dict_get(intent, "attendees", None).items
        IN  /\ calls = <<"messages.get", "chat.completion",
                         "create_webex_meeting", "meetings.post",
                         "create_google_calendar_event", "tokens.exists",
                         "tokens.read", "events.insert">>
            /\ booking_data = intent
            /\ webex_link = webex_meeting_url
            /\ Len(event_body.attendees) = Len(attendees)
            /\ \A i \in DOMAIN attendees :
                  event_body.attendees[i] = [email |-> attendees[i]]

C6_Witness ==
    /\ wpc = "done"
    /\ openai_response = IntentTwo
    /\ webex_meeting_url = LinkB
    /\ webex_link = LinkB
    /\ event_body.attendees = <<[email |-> Text("bob@x.com")], [email |-> Text("amy@x.com")]>>
    /\ Count("meetings.post") = 1 /\ Count("events.insert") = 1

\* C7: when meetndecks_tokens.json is absent as the publisher runs, the
\* publisher returns without a calendar insert and without an exception,
\* create_webex_meeting having been called for the event; nothing is written
\* to the credential file, and the handler then acknowledges.
C7_NoCredentialsSkipsInsert ==
    [][ /\ (wpc = "publish" /\ ~tokens_file.exists /\ wpc' # "publish") =>
            /\ wpc' = "return"
            /\ wexception' = NoException
            /\ CountOf(calls', "create_webex_meeting") = 1
            /\ CountOf(calls', "create_google_calendar_event") = 1
            /\ CountOf(calls', "tokens.read") = 0
            /\ CountOf(calls', "events.insert") = 0
            /\ events_inserted' = events_inserted
            /\ event_body' = NoBody
            /\ tokens_file' = tokens_file
        /\ (wpc = "return" /\ wpc' # "return") => (wpc' = "done" /\ wresponse' = Ack)
      ]_vars

C7_Witness ==
    /\ wpc = "done"
    /\ wresponse = Ack
    /\ ~tokens_file.exists
    /\ webex_meeting_url = LinkA
    /\ calls = <<"messages.get", "chat.completion", "create_webex_meeting",
                 "meetings.post", "create_google_calendar_event", "tokens.exists">>

\* C8: when the message-get call returns a status that is not success,
\* fetch_webex_message_text returns "" and the pipeline goes on: the
\* extractor is invoked, once, with the empty text.
C8_FetchFailureAbsorbed ==
    (fetch_status # 0 /\ fetch_status # 200) =>
        /\ message_text = Text("")
        /\ wexception.at # "fetch_webex_message_text"
        /\ wpc \notin {"idle", "fetch"}
        /\ wpc # "extract" => Count("chat.completion") = 1

C8_Witness ==
    /\ fetch_status = 404
    /\ message_text = Text("")
    /\ wpc = "parse"
    /\ calls = <<"messages.get", "chat.completion">>

\* C9: the event's location is the join link when there is one, and a
\* fallback label, not null, when the join link is None.
C9_LocationIsLinkOrFallback ==
    Called("events.insert") =>
        IF webex_link # None
        THEN event_body.location = webex_link
        ELSE event_body.location # None

NoCode(code) == code = None \/ code = Text("")

\* C10: a request to /google_callback without a code is answered 400, no
\* token exchange is attempted and the credential file is left as it is.
C10_MissingCodeRejected ==
    /\ [][ (ncallbacks' = ncallbacks + 1 /\ NoCode(gcode')) =>
              /\ groute' = "/google_callback"
              /\ gresponse'.status = 400
              /\ gpc' = "done"
              /\ tokens_file' = tokens_file ]_vars
    /\ []( (groute = "/google_callback" /\ NoCode(gcode)) =>
              /\ gpc = "done"
              /\ gresponse.status = 400
              /\ gcreds = "" )

C10_Witness ==
    /\ groute = "/google_callback"
    /\ gcode = Text("")
    /\ gresponse = [status |-> 400, body |-> "Missing Google OAuth code."]
    /\ tokens_file = AbsentFile

\* C11: there is no deduplication.  Every delivery of a filter-passing event
\* starts the pipeline afresh, whatever was delivered before; every run of
\* create_webex_meeting sends one more meeting-creation request, and every
\* run of the publisher for a BookingIntent with credentials loaded sends one
\* more insert.
C11_NoDeduplication ==
    [][ /\ (nwebhooks' = nwebhooks + 1 /\ ~FilteredOut(webhook_data')) =>
              (wpc' = "fetch" /\ calls' = <<>>)
        /\ (wpc = "provision" /\ wpc' # "provision") =>
              /\ meetings_posted' = meetings_posted + 1
              /\ CountOf(calls', "meetings.post") = 1
        /\ (wpc = "insert" /\ wpc' # "insert" /\ IsBookingIntent(booking_data)) =>
              /\ events_inserted' = events_inserted + 1
              /\ CountOf(calls', "events.insert") = 1
      ]_vars

\* The same event delivered twice: two meeting requests and two inserts.
C11_Witness ==
    /\ nwebhooks = 2
    /\ wpc = "done"
    /\ message_id = Text("m1")
    /\ IsBookingIntent(booking_data)
    /\ meetings_posted = 2
    /\ events_inserted = 2

\* C12: meetndecks_tokens.json is created or changed only by a step of
\* /google_callback that follows a successful exchange (flow.credentials is a
\* bundle); no step of /webhook, /callback or /google_auth changes it, and
\* no step removes the file.
C12_OnlyGoogleCallbackWrites ==
    [][ /\ tokens_file' # tokens_file =>
              /\ groute = "/google_callback"
              /\ gpc \in {"open", "write"}
              /\ gcreds \in Bundles
              /\ wvars' = wvars
              /\ tokens_file'.exists
        /\ tokens_file.exists => tokens_file'.exists
      ]_vars

\* The file created by /google_callback while webhooks, /callback and
\* /google_auth were served.
C12_Witness ==
    /\ tokens_file = [exists |-> TRUE, content |-> "bundle2"]
    /\ gpc = "done"
    /\ groute = "/google_auth"
    /\ nwebhooks = 2
    /\ wpc = "done"
    /\ creds = "bundle2"

\* The file as open(..., "w") leaves it until the bundle is written.
Truncated == tokens_file.exists /\ tokens_file.content \notin Bundles

\* C13: nothing locks meetndecks_tokens.json.  While /google_callback is
\* between its open and its write, a publisher that has passed the exists
\* check can take its read step, and a read step taken on the truncated file
\* finds no bundle in it (from_authorized_user_file raises).
C13_ReadRacesWrite ==
    /\ [](wpc = "load" /\ gpc = "write" => ENABLED PublisherLoad)
    /\ [][ (wpc = "load" /\ wpc' # "load") =>
              /\ CountOf(calls, "tokens.exists") = 1
              /\ calls' = Append(calls, "tokens.read")
              /\ Truncated =>
                    /\ gpc = "write"
                    /\ wpc' = "crashed"
                    /\ wexception'.type = "ValueError"
                    /\ creds' \notin Bundles
         ]_vars

\* The publisher has read the file between /google_callback's open and write.
C13_Witness ==
    /\ Truncated
    /\ gpc = "write"
    /\ wpc = "crashed"
    /\ CountOf(calls, "tokens.read") = 1
    /\ CountOf(calls, "events.insert") = 0
    /\ CountOf(calls, "tokens.exists") = 1
    /\ wexception.type = "ValueError"

\* The extractor's output is text that json.loads accepts.
ParsedOk ==
    /\ Called("chat.completion")
    /\ openai_response.t = "str"
    /\ json_loads(openai_response).ok

\* A parsed JSON value that is empty: null, false, 0, "", [] or {}.
EmptyValue(v) ==
    \/ v.t = "None"
    \/ v.t = "bool" /\ ~v.b
    \/ v.t = "int" /\ v.n = 0
    \/ v.t = "str" /\ v.s = <<>>
    \/ v.t = "list" /\ v.items = <<>>
    \/ v.t = "dict" /\ v.pairs = <<>>

\* C14 as stated: whenever the extractor's output parses as JSON,
\* create_webex_meeting is called exactly once, empty parsed values included.
C14_ProvisionerCalledOnEveryParse ==
    (Finished /\ ParsedOk) => Count("create_webex_meeting") = 1

\* C14, amended: when the extractor's output parses as JSON to a value that
\* is not empty, create_webex_meeting is called exactly once; when it parses
\* to an empty value ({}, [], null) the call is skipped, nothing is posted
\* and the request is acknowledged.
C14_ProvisionerCalledOnNonEmptyParse ==
    (Finished /\ ParsedOk) =>
        LET v == json_loads(openai_response).val IN
        /\ booking_data = v
        /\ IF EmptyValue(v)
           THEN /\ Count("create_webex_meeting") = 0
                /\ Count("meetings.post") = 0
                /\ Count("create_google_calendar_event") = 0
                /\ wpc = "done" /\ wresponse = Ack
           ELSE Count("create_webex_meeting") = 1

\* The extractor answered {} and the request ended without the provisioner.
C14_Witness ==
    /\ Finished /\ ParsedOk
    /\ booking_data = PyDict(<<>>)
    /\ Count("create_webex_meeting") = 0
    /\ wresponse = Ack

\* create_webex_meeting was called for the request, returned, and returned
\* None.
ProvisionerReturnedNone ==
    /\ Count("create_webex_meeting") = 1
    /\ wpc \notin {"provision"}
    /\ wexception.at # "create_webex_meeting"
    /\ webex_meeting_url = None

\* C15: when create_webex_meeting returns None, webhook still calls
\* create_google_calendar_event exactly once, handing it booking_data and
\* the None link; with credentials stored and a BookingIntent the publisher
\* builds the event from the intent and issues events().insert once.
C15_PublisherRunsWithoutLink ==
    (Finished /\ ProvisionerReturnedNone) =>
        /\ Count("create_google_calendar_event") = 1
        /\ webex_link = None
        /\ (CredentialsStored /\ IsBookingIntent(booking_data)) =>
              /\ Count("events.insert") = 1
              /\ event_body.organizer = HostEmail
              /\ Len(event_body.attendees) =
                    Len(dict_get(booking_data, "attendees", None).items)

\* A non-200 answer from the meetings API followed by an insert.
C15_Witness ==
    /\ wpc = "done"
    /\ ProvisionerReturnedNone
    /\ IsBookingIntent(booking_data)
    /\ creds \in Bundles
    /\ webex_link = None
    /\ Count("events.insert") = 1
    /\ wresponse = Ack

\* The join link a meetings API response carries: the webLink of the first
\* item, or of the response itself; None when it carries none.
ResponseLink(json) ==
    IF dict_has(json, "items")
    THEN LET items == dict_get(json, "items", None)
         IN  IF items.t = "list" /\ Len(items.items) > 0
             THEN dict_get(items.items[1], "webLink", None)
             ELSE None
    ELSE dict_get(json, "webLink", None)

\* C16: each call of create_webex_meeting posts exactly one request, and on
\* a response it returns the response's join link when the status is 2xx
\* and None when it is not.
C16_LinkOn2xxNoneOtherwise ==
    [][ \A out \in MeetingPostOutcomes :
          (ProvisionMeeting(out) /\ ~out.raise) =>
              /\ CountOf(calls', "create_webex_meeting") = 1
              /\ CountOf(calls', "meetings.post") = 1
              /\ wpc' = "publish"
              /\ webex_meeting_url' =
                    IF out.status_code \in 200..299
                    THEN ResponseLink(out.json) ELSE None
      ]_vars

\* The external calls of webhook(), in the order of its code.
ExternalOrder == <<"messages.get", "chat.completion", "meetings.post", "events.insert">>

IsExternal(name) == \E i \in DOMAIN ExternalOrder : ExternalOrder[i] = name

\* The external calls the request in flight has made, in order.
ExternalCalls == SelectSeq(calls, IsExternal)

\* C17: the external calls of a request are a prefix of message fetch, LLM
\* completion, meeting creation, calendar insert, so each is made at most
\* once and in that order; a meeting is posted
\* only after the fetch was answered and the completion returned text, and
\* an event is inserted only after the meeting post was answered.
C17_ExternalCallsInOrder ==
    /\ Len(ExternalCalls) <= Len(ExternalOrder)
    /\ \A i \in DOMAIN ExternalCalls : ExternalCalls[i] = ExternalOrder[i]
    /\ Called("meetings.post") =>
          /\ fetch_status # 0
          /\ wexception.at # "fetch_webex_message_text"
          /\ openai_response.t = "str"
    /\ Called("events.insert") =>
          /\ Count("meetings.post") = 1
          /\ wexception.at # "create_webex_meeting"
          /\ wpc \notin {"provision"}

\* A request that made all four calls.
C17_Witness ==
    /\ wpc = "done"
    /\ ExternalCalls = ExternalOrder

\* Days from 1970-01-01 to a date of the Gregorian calendar.
DaysFromCivil(year, month, day) ==
    LET y == IF month <= 2 THEN year - 1 ELSE year
        era == y \div 400
        yoe == y - era * 400
        mp == IF month > 2 THEN month - 3 ELSE month + 9
        doy == (153 * mp + 2) \div 5 + day - 1
        doe == yoe * 365 + yoe \div 4 - yoe \div 100 + doy
    IN  era * 146097 + doe - 719468

\* The absolute instant an RFC 3339 timestamp denotes, in seconds since
\* 1970-01-01T00:00:00Z: the local time less its UTC offset.
Instant(ts) ==
    DaysFromCivil(ts.year, ts.month, ts.day) * 86400
        + ts.hour * 3600 + ts.minute * 60 + ts.second - ts.offset * 60

\* C18: when a request has posted a meeting and inserted an event, the start
\* and end of the meeting request are the same instants as the start and end
\* of the event, and in both the end is 30 minutes after the start.
C18_SameInstants ==
    (Count("meetings.post") = 1 /\ Count("events.insert") = 1) =>
        /\ Instant(meeting_request.start) = Instant(event_body.start)
        /\ Instant(meeting_request.end) = Instant(event_body.end)
        /\ Instant(meeting_request.end) = Instant(meeting_request.start) + 30 * 60
        /\ Instant(event_body.end) = Instant(event_body.start) + 30 * 60

=============================================================================
